---- MODULE Spec2Model ----
(***************************************************************************)
(* Job orchestration layer of the Sora web front end                       *)
(* (src/src/app/web_app.py): the submission handlers create_video and      *)
(* remix_video, the background tasks create_video_async and                *)
(* remix_video_async, the shared registry job_status, the status query     *)
(* get_status, the archive listing get_gallery and the archive endpoints   *)
(* download_video_endpoint, delete_video and delete_local_video; and the   *)
(* create and wait_for_completion calls of the API client                  *)
(* (src/src/api/sora_api.py, and the older copy src/sora_api.py).          *)
(*                                                                         *)
(* One step of a task is one call of the API client or one write of the    *)
(* registry; the steps of different tasks interleave freely.  The remote   *)
(* service is a black box whose job status only moves forward.  Tasks are  *)
(* numbered in the order of their submission; the poll loop of the first   *)
(* is followed for MaxPolls turns, that of the later ones for              *)
(* MaxLatePolls turns.                                                     *)
(***************************************************************************)
EXTENDS Integers, Sequences, FiniteSets, TLC

\* ------------------------------------------------------------------ bounds
\* number of submissions (background threads) in one run
MaxTasks == 2
\* last reading of the microsecond clock behind datetime.now()
MaxClock == 1
\* getStatus calls that a run follows: of the first task submitted ...
MaxPolls == 5
\* ... and of each task submitted after it
MaxLatePolls == 1

\* ------------------------------------------------------- program constants
max_wait_time == 600
poll_interval == 3
max_consecutive_errors == 5

Tasks == 1..MaxTasks

\* time a getStatus call and the scheduler add to the fixed sleep, in seconds:
\* none, or half of the polling budget
Latencies == {0, (max_wait_time \div 2) - poll_interval}

NonTerminalRemote == {"queued", "in_progress"}
TerminalRemote == {"completed", "failed", "cancelled", "incomplete"}
RemoteStatuses == NonTerminalRemote \cup TerminalRemote

\* The statuses a retrieve can return after `prev` was returned: a remote job
\* moves queued -> in_progress -> terminal and never back.
RemoteNext(prev) ==
    CASE prev = "unbound"     -> RemoteStatuses
      [] prev = "queued"      -> RemoteStatuses
      [] prev = "in_progress" -> RemoteStatuses \ {"queued"}
      [] OTHER                -> {prev}

\* f"job_{datetime.now().strftime('%Y%m%d_%H%M%S_%f')}": the text of the clock
\* reading, one text per microsecond
JobId(clock) == <<"job", clock>>

\* the id the remote service gives the job a task submits
RemoteId(t) == <<"video", t>>

VideoIds == {RemoteId(t) : t \in Tasks}

\* os.path.join('temp', f"temp_{datetime.now().strftime(...)}_{file.filename}")
\* for uploads that all carry one filename: one path per microsecond
TempFile(clock) == <<"temp", clock>>

TempFiles == {TempFile(c) : c \in 0..MaxClock}

\* a path that names no file
MissingFile == <<"nowhere">>

RefPaths == TempFiles \cup {MissingFile}

\* datetime.now().isoformat() and os.path.getmtime(): a time later than ''
Stamp(clock) == clock + 1

Stamps == {Stamp(c) : c \in 0..MaxClock}

\* the 'progress' field of the job that client.retrieve returns
RemoteProgress == {0, 100}

\* ... of a remote service that reports no progress
SteadyProgress == {0}

\* the two API clients of the repository: src/src/api/sora_api.py and the
\* older src/sora_api.py
Adapters == {"api", "legacy"}

\* f"videos/{video_id}/{video_id}.mp4"
VideoFile(vid) == <<"videos", vid, vid, ".mp4">>
ThumbnailFile(vid) == <<"videos", vid, "thumbnail.webp">>

NoValue == <<>>

Msg(text, arg, n) == [text |-> text, arg |-> arg, n |-> n]

NoErrorDetails == [error_type |-> "none", api_response |-> "none"]

\* video.get('error', {}).get('message'): the error detail of the job that
\* retrieve returns, which a failed job carries
RemoteError(s) == IF s = "failed" THEN "error.message" ELSE ""

\* Python's float is IEEE binary64: a significand of 53 bits, held here as
\* three limbs of 17, 18 and 18 bits, times 2^x.
Limb == 2^18
Top == 2^16

Zero == [hi |-> 0, mid |-> 0, lo |-> 0, x |-> 0]

\* round to nearest: the significand kept, or its successor when `up`
Round(hi, mid, lo, x, up) ==
    IF ~up THEN [hi |-> hi, mid |-> mid, lo |-> lo, x |-> x]
    ELSE IF lo + 1 < Limb THEN [hi |-> hi, mid |-> mid, lo |-> lo + 1, x |-> x]
    ELSE IF mid + 1 < Limb THEN [hi |-> hi, mid |-> mid + 1, lo |-> 0, x |-> x]
    ELSE IF hi + 1 < 2 * Top THEN [hi |-> hi + 1, mid |-> 0, lo |-> 0, x |-> x]
    ELSE [hi |-> Top, mid |-> 0, lo |-> 0, x |-> x + 1]

\* a / b of two whole numbers: the first 53 bits of the quotient by long
\* division, rounded to nearest, ties to even
fdiv(a, b) ==
    IF a = 0 THEN Zero
    ELSE LET s   == CHOOSE s \in 0..30 : (a * 2^s) \div b \in Top..(2 * Top - 1)
             hi  == (a * 2^s) \div b
             r1  == (a * 2^s) % b
             mid == (r1 * Limb) \div b
             r2  == (r1 * Limb) % b
             lo  == (r2 * Limb) \div b
             r3  == (r2 * Limb) % b
         IN  Round(hi, mid, lo, 0 - (s + 36),
                   2 * r3 > b \/ (2 * r3 = b /\ lo % 2 = 1))

\* f * n for a whole number n: the exact product cut to 53 bits, rounded to
\* nearest, ties to even
fmul(f, n) ==
    IF f.hi = 0 THEN Zero
    ELSE LET p3  == f.lo * n
             p2  == f.mid * n + p3 \div Limb
             p1  == f.hi * n + p2 \div Limb
             k   == CHOOSE k \in 0..17 : p1 \div 2^k \in Top..(2 * Top - 1)
             up2 == 2^(18 - k)
             lo  == (p2 % 2^k) * up2 + (p3 % Limb) \div 2^k
             cut == p3 % 2^k
         IN  Round(p1 \div 2^k,
                   (p1 % 2^k) * up2 + (p2 % Limb) \div 2^k, lo, f.x + k,
                   k > 0 /\ (2 * cut > 2^k \/ (2 * cut = 2^k /\ lo % 2 = 1)))

\* int(f): the whole part of a float that is not negative
int(f) ==
    IF 0 - f.x >= 36 + 17 THEN 0
    ELSE IF 0 - f.x >= 36 THEN f.hi \div 2^(0 - f.x - 36)
    ELSE (f.hi * Limb * Limb + f.mid * Limb + f.lo) \div 2^(0 - f.x)

\* min(75, int((elapsed / max_wait_time) * 75))
time_progress(e) ==
    LET p == int(fmul(fdiv(e, max_wait_time), 75)) IN IF p < 75 THEN p ELSE 75

current_progress(e) == 10 + time_progress(e)

VARIABLES
    now,                \* microsecond clock read by datetime.now()
    job_status,         \* the registry: job id -> record
    pc,                 \* position of each task
    kind,               \* create or remix
    job_id,             \* the job id the handler gave the task
    elapsed,            \* time.time() - start_time, in seconds
    consecutive_errors, \* remix only
    final_result,       \* status of the last retrieve that returned
    polls,              \* getStatus calls issued
    fail_run,           \* getStatus failures since the last one that returned
    timed_out,          \* the loop ended because elapsed >= max_wait_time
    fetch_calls,        \* content variants requested
    archive,            \* videos/: remote video id -> files of its directory
    reply,              \* answer of the last status query
    input_reference_path, \* the temporary file a create handler staged
    temp,               \* temp/: the files in it
    mtime,              \* modification time of videos/<id>/<id>.mp4
    saved_at,           \* 'saved_at' of videos/<id>/metadata.json, 0: none
    legacy,             \* videos/<id>.mp4 and videos/<id>.json (flat layout)
    gallery,            \* answer of the last archive listing
    call,               \* the last direct call of an API client's create
    metadata_file,      \* what videos/<id>/metadata.json holds
    video_dirs,         \* the ids whose directory videos/<id>/ exists
    response,           \* answer of the last download or delete request
    wait                \* a direct call of wait_for_completion

vars == <<now, job_status, pc, kind, job_id, elapsed, consecutive_errors,
          final_result, polls, fail_run, timed_out, fetch_calls, archive,
          reply, input_reference_path, temp, mtime, saved_at, legacy,
          gallery, call, metadata_file, video_dirs, response, wait>>

\* the reference images staged in temp/
uploads == <<input_reference_path, temp>>

\* what the archive holds besides the names of the files in videos/<id>/
shelves == <<mtime, saved_at, legacy, metadata_file, video_dirs>>

\* the answers of the archive listing, of a direct call of the API client and
\* of the archive endpoints
answers == <<gallery, call, response, wait>>

taskLocals == <<kind, job_id, elapsed, consecutive_errors, final_result,
                polls, fail_run, timed_out, fetch_calls, archive>>

\* the same without the archive
threads == <<kind, job_id, elapsed, consecutive_errors, final_result,
             polls, fail_run, timed_out, fetch_calls>>

NoReply == [job |-> NoValue, code |-> 0, body |-> "none"]

NoLegacy == [files |-> {}, saved_at |-> 0, mtime |-> 0, json |-> "none"]

NoListing == [success |-> FALSE, videos |-> <<>>]

NoCall == [client |-> "none", input_reference |-> NoValue, posted |-> FALSE,
           error |-> "none", api_response |-> "none"]

NoResponse == [endpoint |-> "none", video_id |-> NoValue, remote |-> "absent",
               code |-> 0, calls |-> <<>>]

NoWait == [client |-> "none", state |-> "idle", max_wait_time |-> 0,
           elapsed |-> 0, status |-> "unbound", step |-> "none"]

InitTasks ==
    /\ now = 0
    /\ job_status = <<>>
    /\ pc = [t \in Tasks |-> "idle"]
    /\ kind = [t \in Tasks |-> "none"]
    /\ job_id = [t \in Tasks |-> NoValue]
    /\ elapsed = [t \in Tasks |-> 0]
    /\ consecutive_errors = [t \in Tasks |-> 0]
    /\ final_result = [t \in Tasks |-> "unbound"]
    /\ polls = [t \in Tasks |-> 0]
    /\ fail_run = [t \in Tasks |-> 0]
    /\ timed_out = [t \in Tasks |-> FALSE]
    /\ fetch_calls = [t \in Tasks |-> {}]
    /\ reply = NoReply
    /\ input_reference_path = [t \in Tasks |-> NoValue]
    /\ gallery = NoListing
    /\ call = NoCall
    /\ response = NoResponse
    /\ wait = NoWait

\* videos/ holds nothing
NoVideos ==
    /\ archive = [v \in VideoIds |-> {}]
    /\ mtime = [v \in VideoIds |-> 0]
    /\ saved_at = [v \in VideoIds |-> 0]
    /\ legacy = [v \in VideoIds |-> NoLegacy]
    /\ metadata_file = [v \in VideoIds |-> "none"]
    /\ video_dirs = {}

\* the server starts with empty temp/ and videos/ directories
Init ==
    /\ InitTasks
    /\ temp = {}
    /\ NoVideos

\* ---------------------------------------------------------------- registry
HasRecord(j) == j \in DOMAIN job_status

\* job_status[job_id] = {...}
NewRecord(st, text) ==
    [status |-> st, progress |-> 0, message |-> Msg(text, "", 0),
     video_id |-> NoValue, video_path |-> NoValue, thumbnail_path |-> NoValue,
     result |-> "none", error_details |-> NoErrorDetails]

Assign(j, rec) == job_status' = (j :> rec) @@ job_status

\* job_status[job_id].update({...}) of an existing record
Update(j, rec) == job_status' = [job_status EXCEPT ![j] = rec]

\* a create task was given a staged reference image
Staged(t) == kind[t] = "create" /\ input_reference_path[t] # NoValue

\* the clean-up written at the end of the try block and of the except clause
EndPc_not_finally(t, p) == IF Staged(t) /\ p = "done" THEN "finally" ELSE p

\* where a task goes when its try statement is left, normally (p = "done") or
\* by an exception of the except clause (p = "escaped"): create_video_async
\* has a finally clause, which has work to do when a file was staged
EndPc(t, p) ==
    IF Staged(t)
    THEN IF p = "done" THEN "finally" ELSE "finally_raising"
    ELSE p

\* the except clause of a task: job_status[job_id].update({'status': 'error',
\* ...}); the lookup raises KeyError when the record was never created, and
\* that exception leaves the thread
Raise(t, etype, resp) ==
    IF HasRecord(job_id[t])
    THEN /\ Update(job_id[t],
                [job_status[job_id[t]] EXCEPT
                    !.status = "error",
                    !.message = Msg("Error", etype, 0),
                    !.error_details =
                        [error_type |-> etype, api_response |-> resp]])
         /\ pc' = [pc EXCEPT ![t] = EndPc(t, "done")]
    ELSE /\ job_status' = job_status
         /\ pc' = [pc EXCEPT ![t] = EndPc(t, "escaped")]

\* ---------------------------------------------------------------- handlers
\* create_video / remix_video: save the uploaded file if there is one, read
\* the clock, start the thread, return the id.  The clock does not move
\* within one request.
StartTask(t, k, file) ==
    /\ pc[t] = "idle"
    /\ \A u \in Tasks : u < t => pc[u] # "idle"
    /\ pc' = [pc EXCEPT ![t] = "started"]
    /\ kind' = [kind EXCEPT ![t] = k]
    /\ job_id' = [job_id EXCEPT ![t] = JobId(now)]
    /\ IF file
       THEN /\ input_reference_path' =
                  [input_reference_path EXCEPT ![t] = TempFile(now)]
            /\ temp' = temp \cup {TempFile(now)}
       ELSE UNCHANGED uploads
    /\ UNCHANGED <<now, job_status, elapsed, consecutive_errors, final_result,
                   polls, fail_run, timed_out, fetch_calls, archive, reply,
                   shelves, answers>>

\* POST /api/create with or without a prompt and with or without an uploaded
\* reference image: the prompt is not looked at
create_video(t, prompt, file) ==
    /\ prompt \in BOOLEAN
    /\ StartTask(t, "create", file)

\* POST /api/remix with or without a video_id and a prompt: 400 when one is
\* missing, which leaves the server as it was
remix_video(t, video_id, prompt) ==
    IF video_id /\ prompt
    THEN StartTask(t, "remix", FALSE)
    ELSE /\ pc[t] = "idle"
         /\ UNCHANGED vars

\* the registry with a record made for every id that is asked for
get_status_default(j) ==
    /\ reply' = IF HasRecord(j)
                THEN [job |-> j, code |-> 200, body |-> job_status[j].status]
                ELSE [job |-> j, code |-> 200, body |-> "not_found"]
    /\ IF HasRecord(j) THEN UNCHANGED job_status
       ELSE Assign(j, NewRecord("not_found", "Job not found"))
    /\ UNCHANGED <<now, pc, taskLocals, uploads, shelves, answers>>

\* get_status(job_id)
get_status(j) ==
    /\ reply' = IF HasRecord(j)
                THEN [job |-> j, code |-> 200, body |-> job_status[j].status]
                ELSE [job |-> j, code |-> 404, body |-> "not_found"]
    /\ UNCHANGED <<now, job_status, pc, taskLocals, uploads, shelves, answers>>

\* the clock behind datetime.now() moves on
Tick ==
    /\ now < MaxClock
    /\ now' = now + 1
    /\ UNCHANGED <<job_status, pc, taskLocals, reply, uploads, shelves, answers>>

\* ------------------------------------------------------------------- tasks
\* client = SoraAPIClient(); job_status[job_id] = {'status': ..., 'progress': 0}
Register(t) ==
    /\ pc[t] = "started"
    /\ Assign(job_id[t],
              IF kind[t] = "create"
              THEN NewRecord("creating", "Initiating video creation")
              ELSE NewRecord("remixing", "Initiating video remix"))
    /\ pc' = [pc EXCEPT ![t] = "submit"]
    /\ UNCHANGED <<now, taskLocals, reply, uploads, shelves, answers>>

\* SoraAPIClient() raises ValueError: no API key is configured
ClientFails(t) ==
    /\ pc[t] = "started"
    /\ Raise(t, "ValueError", "none")
    /\ UNCHANGED <<now, taskLocals, reply, uploads, shelves, answers>>

\* what requests.post(url, ...) followed by raise_for_status() can do
PostOutcomes ==
    {[posted |-> TRUE, error |-> "none", api_response |-> "none"],
     [posted |-> TRUE, error |-> "HTTPError", api_response |-> "json"],
     [posted |-> TRUE, error |-> "HTTPError", api_response |-> "text"],
     [posted |-> TRUE, error |-> "ConnectionError", api_response |-> "none"]}

\* src/src/api/sora_api.py opens the reference image before it posts;
\* src/sora_api.py puts the path into the JSON payload and never opens it
OpensReference(client) == client = "api"

\* SoraAPIClient.create(prompt, input_reference=...) of the given client with
\* the given files on the disk: whether a request was posted, and the
\* exception raised
create(client, reference, files) ==
    IF OpensReference(client) /\ reference # NoValue /\ reference \notin files
    THEN \* open() raises FileNotFoundError
         {[posted |-> FALSE, error |-> "ValueError", api_response |-> "none"]}
    ELSE PostOutcomes

\* client.create(..., input_reference=input_reference_path) of a create task,
\* client.remix(video_id, prompt) of a remix task
SubmitOutcomes(t) ==
    IF kind[t] = "create" THEN create("api", input_reference_path[t], temp)
    ELSE PostOutcomes

\* client.create(...) / client.remix(...) returns the remote job
SubmitOk(t) ==
    /\ pc[t] = "submit"
    /\ \E o \in SubmitOutcomes(t) : o.error = "none"
    /\ Update(job_id[t],
           [job_status[job_id[t]] EXCEPT
               !.video_id = RemoteId(t),
               !.progress = 10,
               !.message = Msg("started, waiting for completion", "", 0)])
    /\ pc' = [pc EXCEPT ![t] = "poll"]
    /\ elapsed' = [elapsed EXCEPT ![t] = 0]
    /\ consecutive_errors' = [consecutive_errors EXCEPT ![t] = 0]
    /\ UNCHANGED <<now, kind, job_id, final_result, polls, fail_run, timed_out,
                   fetch_calls, archive, reply, uploads, shelves, answers>>

\* the submit call made again after it has failed
SubmitFails_retry(t) ==
    /\ pc[t] = "submit"
    /\ \E o \in SubmitOutcomes(t) :
          /\ o.error # "none"
          /\ Update(job_id[t],
                 [job_status[job_id[t]] EXCEPT
                     !.status = "error",
                     !.message = Msg("Error", o.error, 0),
                     !.error_details = [error_type |-> o.error,
                                        api_response |-> o.api_response]])
    /\ UNCHANGED <<now, pc, taskLocals, reply, uploads, shelves, answers>>

\* client.create(...) / client.remix(...) raises
SubmitFails(t) ==
    /\ pc[t] = "submit"
    /\ \E o \in SubmitOutcomes(t) :
          /\ o.error # "none"
          /\ Raise(t, o.error, o.api_response)
    /\ UNCHANGED <<now, taskLocals, reply, uploads, shelves, answers>>

\* the test written with > in place of >=
TooManyErrors_late(n) == n > max_consecutive_errors

\* if consecutive_errors >= max_consecutive_errors: raise
TooManyErrors(n) == n >= max_consecutive_errors

\* the getStatus calls of task t that a run follows
PollBudget(t) == IF t = 1 THEN MaxPolls ELSE MaxLatePolls

\* the loop without its break on failed
Breaks_completed_only(s) == s = "completed"

\* elif status == 'completed': break / elif status == 'failed': break
Breaks(s) == s \in {"completed", "failed"}

\* The loop's variables are not read after the loop: leaving it drops them.
LeaveLoop(t) ==
    /\ elapsed' = [elapsed EXCEPT ![t] = 0]
    /\ consecutive_errors' = [consecutive_errors EXCEPT ![t] = 0]
    /\ polls' = [polls EXCEPT ![t] = 0]

\* time.sleep(poll_interval); elapsed = time.time() - start_time; and the
\* test of the while loop
Sleep(t, lat, errs, n) ==
    LET e == elapsed[t] + poll_interval + lat IN
    IF e < max_wait_time
    THEN /\ elapsed' = [elapsed EXCEPT ![t] = e]
         /\ consecutive_errors' = [consecutive_errors EXCEPT ![t] = errs]
         /\ polls' = [polls EXCEPT ![t] = n]
         /\ pc' = [pc EXCEPT ![t] = "poll"]
         /\ UNCHANGED timed_out
    ELSE /\ LeaveLoop(t)
         /\ pc' = [pc EXCEPT ![t] = "after_loop"]
         /\ timed_out' = [timed_out EXCEPT ![t] = TRUE]

\* the progress taken from the remote job
reported_progress_remote(e, remote) == remote

\* the progress a turn of the loop writes: current_progress, computed from
\* elapsed; final_result.get('progress') is not read
reported_progress(e, remote) == current_progress(e)

\* one turn of the loop in which client.retrieve(video_id) returns a job of
\* status s and progress remote
PollOk(t, s, lat, remote) ==
    /\ pc[t] = "poll"
    /\ polls[t] < PollBudget(t)
    /\ s \in RemoteNext(final_result[t])
    /\ final_result' = [final_result EXCEPT ![t] = s]
    /\ fail_run' = [fail_run EXCEPT ![t] = 0]
    /\ IF Breaks(s)
       THEN /\ pc' = [pc EXCEPT ![t] = "after_loop"]
            /\ LeaveLoop(t)
            /\ UNCHANGED <<job_status, timed_out>>
       ELSE /\ Update(job_id[t],
                   [job_status[job_id[t]] EXCEPT
                       !.progress = reported_progress(elapsed[t], remote),
                       !.message =
                           CASE s = "queued" -> Msg("queued on server", "", 0)
                             [] s = "in_progress" -> Msg("Generating", "", 0)
                             [] OTHER -> Msg("Status", s, 0)])
            /\ Sleep(t, lat, 0, polls[t] + 1)
    /\ UNCHANGED <<now, kind, job_id, fetch_calls, archive, reply, uploads,
                   shelves, answers>>

\* one turn of the loop in which client.retrieve(video_id) raises
PollFails(t, lat) ==
    /\ pc[t] = "poll"
    /\ polls[t] < PollBudget(t)
    /\ fail_run' = [fail_run EXCEPT ![t] = @ + 1]
    /\ IF kind[t] = "create"
       THEN \* no try around retrieve: the exception ends the task
            /\ Raise(t, "HTTPError", "json")
            /\ LeaveLoop(t)
            /\ UNCHANGED timed_out
       ELSE /\ IF TooManyErrors(consecutive_errors[t] + 1)
               THEN /\ Raise(t, "Exception", "none")
                    /\ LeaveLoop(t)
                    /\ UNCHANGED timed_out
               ELSE /\ Update(job_id[t],
                           [job_status[job_id[t]] EXCEPT
                               !.progress = job_status[job_id[t]].progress,
                               !.message = Msg("Polling video status, retry", "",
                                               consecutive_errors[t] + 1)])
                    /\ Sleep(t, lat, consecutive_errors[t] + 1, polls[t] + 1)
    /\ UNCHANGED <<now, kind, job_id, final_result, fetch_calls, archive, reply,
                   uploads, shelves, answers>>

\* after the loop: if final_result.get('status') == 'completed': ... else: ...
AfterLoop(t) ==
    /\ pc[t] = "after_loop"
    /\ CASE final_result[t] = "unbound" ->
              \* no retrieve ever returned: final_result is not bound
              Raise(t, "UnboundLocalError", "none")
         [] final_result[t] = "completed" ->
              /\ Update(job_id[t],
                     [job_status[job_id[t]] EXCEPT
                         !.status = "downloading",
                         !.progress = 90,
                         !.message = Msg("completed, downloading", "", 0)])
              /\ pc' = [pc EXCEPT ![t] = "fetch_video"]
         [] OTHER ->
              /\ Update(job_id[t],
                     [job_status[job_id[t]] EXCEPT
                         !.status = "failed",
                         !.message = Msg("failed", final_result[t], 0),
                         !.result = final_result[t]])
              /\ pc' = [pc EXCEPT ![t] = EndPc(t, "done")]
    /\ UNCHANGED <<now, taskLocals, reply, uploads, shelves, answers>>

\* the content variants a task fetches, in order
Variants(k) ==
    IF k = "create" THEN <<"video", "thumbnail", "spritesheet">>
    ELSE <<"video", "thumbnail">>

FetchPc(v) == CASE v = "video" -> "fetch_video"
                [] v = "thumbnail" -> "fetch_thumbnail"
                [] v = "spritesheet" -> "fetch_spritesheet"

\* the metadata written right after the first content fetch
PcAfterFetch_first(k, i) == "metadata"

\* the save_video calls in the order of the code, json.dump after the last
PcAfterFetch(k, i) ==
    IF i < Len(Variants(k)) THEN FetchPc(Variants(k)[i + 1]) ELSE "metadata"

\* os.makedirs(video_dir, exist_ok=True), which precedes the first fetch
MakeDir(t, i) ==
    video_dirs' = IF i = 1 THEN video_dirs \cup {RemoteId(t)} ELSE video_dirs

\* client.save_video(video_id, file, variant=v) returns: the content was
\* received and written to a file of the directory, which has to exist
FetchOk(t, i) ==
    /\ i \in 1..Len(Variants(kind[t]))
    /\ pc[t] = FetchPc(Variants(kind[t])[i])
    /\ MakeDir(t, i)
    /\ RemoteId(t) \in video_dirs'
    /\ fetch_calls' = [fetch_calls EXCEPT ![t] = @ \cup {Variants(kind[t])[i]}]
    /\ archive' = [archive EXCEPT ![RemoteId(t)] = @ \cup {Variants(kind[t])[i]}]
    /\ mtime' = IF Variants(kind[t])[i] = "video"
                THEN [mtime EXCEPT ![RemoteId(t)] = Stamp(now)]
                ELSE mtime
    /\ pc' = [pc EXCEPT ![t] = PcAfterFetch(kind[t], i)]
    /\ UNCHANGED <<now, job_status, kind, job_id, elapsed, consecutive_errors,
                   final_result, polls, fail_run, timed_out, reply, uploads,
                   saved_at, legacy, metadata_file, answers>>

\* client.save_video(video_id, file, variant=v) raises
FetchFails(t, i) ==
    /\ i \in 1..Len(Variants(kind[t]))
    /\ pc[t] = FetchPc(Variants(kind[t])[i])
    /\ fetch_calls' = [fetch_calls EXCEPT ![t] = @ \cup {Variants(kind[t])[i]}]
    /\ MakeDir(t, i)
    /\ Raise(t, "HTTPError", "json")
    /\ UNCHANGED <<now, kind, job_id, elapsed, consecutive_errors,
                   final_result, polls, fail_run, timed_out, archive, reply,
                   uploads, mtime, saved_at, legacy, metadata_file, answers>>

\* In create_video_async the name json is local to the function (the except
\* clause holds `import json`), so json.dump(...) in the try block finds it
\* unbound; remix_video_async uses the module's json.
JsonIsBound(k) == k = "remix"

\* what open(metadata_file, 'w') and json.dump(metadata, f, indent=2) leave
\* in the file: the metadata of the task, or nothing when json.dump raised
Written(k) == IF JsonIsBound(k) THEN k ELSE "empty"

\* with open(metadata_file, 'w') as f: json.dump(metadata, f, indent=2).
\* open() truncates the file that is there or creates one; the metadata of a
\* remix task has no 'saved_at' (and that of a create task is never written).
WriteMetadata(t) ==
    /\ pc[t] = "metadata"
    /\ \/ \* open() raises
          /\ Raise(t, "OSError", "none")
          /\ UNCHANGED <<archive, metadata_file, saved_at>>
       \/ \* open() has created or truncated the file
          /\ RemoteId(t) \in video_dirs
          /\ archive' = [archive EXCEPT ![RemoteId(t)] = @ \cup {"metadata"}]
          /\ metadata_file' =
                [metadata_file EXCEPT ![RemoteId(t)] = Written(kind[t])]
          /\ saved_at' = [saved_at EXCEPT ![RemoteId(t)] = 0]
          /\ IF JsonIsBound(kind[t])
             THEN /\ pc' = [pc EXCEPT ![t] = "finish"]
                  /\ UNCHANGED job_status
             ELSE Raise(t, "UnboundLocalError", "none")
    /\ UNCHANGED <<now, kind, job_id, elapsed, consecutive_errors, final_result,
                   polls, fail_run, timed_out, fetch_calls, reply, uploads,
                   mtime, legacy, video_dirs, answers>>

\* job_status[job_id].update({'status': 'completed', 'progress': 100, ...})
Finish(t) ==
    /\ pc[t] = "finish"
    /\ Update(job_id[t],
           [job_status[job_id[t]] EXCEPT
               !.status = "completed",
               !.progress = 100,
               !.message = Msg("ready", "", 0),
               !.video_id = RemoteId(t),
               !.video_path = VideoFile(RemoteId(t)),
               !.thumbnail_path = ThumbnailFile(RemoteId(t)),
               !.result = final_result[t]])
    /\ pc' = [pc EXCEPT ![t] = EndPc(t, "done")]
    /\ UNCHANGED <<now, taskLocals, reply, uploads, shelves, answers>>

\* finally: if input_reference_path and os.path.exists(input_reference_path):
\* try: os.remove(input_reference_path) except: pass
Cleanup(t) ==
    /\ pc[t] \in {"finally", "finally_raising"}
    /\ IF input_reference_path[t] \in temp
       THEN \/ temp' = temp \ {input_reference_path[t]}
            \/ \* os.remove raises
               temp' = temp
       ELSE temp' = temp
    /\ pc' = [pc EXCEPT ![t] = IF pc[t] = "finally" THEN "done" ELSE "escaped"]
    /\ UNCHANGED <<now, job_status, taskLocals, reply, input_reference_path,
                   shelves, answers>>

\* --------------------------------------------------------- archive listing
\* the orders in which os.listdir('videos') can give the names
Orders ==
    {o \in [1..Cardinality(VideoIds) -> VideoIds] :
        \A i, j \in DOMAIN o : o[i] = o[j] => i = j}

\* metadata = {} unless the file exists, has content and json.loads(content)
\* returns: the object is named by its writer
LoadMetadata(content) ==
    IF content \in {"none", "empty", "corrupt"} THEN "{}" ELSE content

\* the entry of videos/<id>/: created_at is metadata.get('saved_at', mtime)
DirEntry(v) ==
    [id |-> v, layout |-> "dir", thumbnail |-> "thumbnail" \in archive[v],
     metadata |-> LoadMetadata(metadata_file[v]),
     created_at |-> IF LoadMetadata(metadata_file[v]) # "{}" /\ saved_at[v] # 0
                    THEN saved_at[v] ELSE mtime[v]]

\* the entry of videos/<id>.json: created_at is metadata.get('saved_at', '')
FlatEntry(v) ==
    [id |-> v, layout |-> "flat", thumbnail |-> TRUE,
     metadata |-> LoadMetadata(legacy[v].json),
     created_at |-> IF LoadMetadata(legacy[v].json) # "{}"
                    THEN legacy[v].saved_at ELSE 0]

\* the first loop: directories that hold <id>.mp4
DirEntries(order) ==
    SelectSeq([i \in DOMAIN order |-> DirEntry(order[i])],
              LAMBDA e : "video" \in archive[e.id])

\* the second loop: files <id>.json beside which <id>.mp4 exists
FlatEntries(order) ==
    SelectSeq([i \in DOMAIN order |-> FlatEntry(order[i])],
              LAMBDA e : {"json", "video"} \subseteq legacy[e.id].files)

\* a step of list.sort(key=created_at, reverse=True), which is stable: e goes
\* behind the entries that are not older than it
InsertDesc(s, e) ==
    LET n == Cardinality({i \in DOMAIN s : s[i].created_at >= e.created_at})
    IN SubSeq(s, 1, n) \o <<e>> \o SubSeq(s, n + 1, Len(s))

RECURSIVE SortDesc(_)
SortDesc(s) ==
    IF s = <<>> THEN <<>>
    ELSE InsertDesc(SortDesc(SubSeq(s, 1, Len(s) - 1)), s[Len(s)])

\* get_gallery(): both loops, then the sort
get_gallery(dirs, files) ==
    /\ gallery' = [success |-> TRUE,
                   videos |-> SortDesc(DirEntries(dirs) \o FlatEntries(files))]
    /\ UNCHANGED <<now, job_status, pc, taskLocals, reply, uploads, shelves,
                   call, response, wait>>

\* -------------------------------------------------------- archive endpoints
\* what the remote service holds of a video id when a request is served: a
\* job in one of its statuses, or nothing
RemoteStates == RemoteStatuses \cup {"absent"}

\* client.retrieve(video_id) returns the job, or raises: always for an id the
\* service does not know, at any time when the request does not get through
Retrieved(remote, through) ==
    IF through /\ remote # "absent" THEN remote ELSE "raised"

\* a call of the API client and how it ended
Called(name, result) == [name |-> name, result |-> result]

Returned(ok) == IF ok THEN "ok" ELSE "raised"

\* the answer of an endpoint, with the calls it made and what the remote
\* service held at that time
Answer(endpoint, v, remote, code, calls) ==
    [endpoint |-> endpoint, video_id |-> v, remote |-> remote, code |-> code,
     calls |-> calls]

\* a status check that lets every job pass
ReadyForDownload_any(got) == got # "raised"

\* if video_info.get('status') != 'completed': return ..., 400
ReadyForDownload(got) == got = "completed"

\* a check that finds no metadata file
SidecarMissing_always(v) == TRUE

\* if not os.path.exists(metadata_file)
SidecarMissing(v) == "metadata" \notin archive[v]

\* the outcomes of a download request that differ: without API key no call is
\* made, without the status completed no content is asked for, without
\* content no thumbnail
DownloadCases ==
    {c \in [key : BOOLEAN, remote : RemoteStates, through : BOOLEAN,
            fetched : BOOLEAN, thumbed : BOOLEAN] :
        /\ ~c.key => c.remote = "absent"
        /\ c.remote = "absent" => c.through
        /\ ~ReadyForDownload(Retrieved(c.remote, c.through)) => c.fetched
        /\ ~c.fetched => c.thumbed}

\* the outcomes of a remote delete request that differ
DeleteCases ==
    {c \in [key : BOOLEAN, remote : RemoteStates, through : BOOLEAN,
            deleted : BOOLEAN] :
        /\ ~c.key => c.through /\ c.deleted
        /\ Retrieved(c.remote, c.through) \in NonTerminalRemote => c.deleted
        /\ c.remote = "absent" => c.through /\ c.deleted}

\* download_video_endpoint(video_id): return at once when the video file is
\* there; else make the directory, build the client, ask for the status and
\* refuse unless it is completed, download the video, make the thumbnail when
\* there is none (a failure is only logged), write metadata.json when there
\* is none
download_video_endpoint(v, key, remote, through, fetched, thumbed) ==
    LET have == "video" \in archive[v]
        got == Retrieved(remote, through)
        calls1 == <<Called("retrieve", got)>>
        calls2 == calls1 \o <<Called("download", Returned(fetched))>>
        calls3 == calls2 \o
                  (IF "thumbnail" \in archive[v] THEN <<>>
                   ELSE <<Called("generate_thumbnail", Returned(thumbed))>>)
        stored == ~have /\ key /\ ReadyForDownload(got) /\ fetched
    IN /\ response' =
             CASE have     -> Answer("download", v, "absent", 200, <<>>)
               [] ~key     -> Answer("download", v, "absent", 500, <<>>)
               [] got = "raised" -> Answer("download", v, "absent", 404, calls1)
               [] ~ReadyForDownload(got) ->
                              Answer("download", v, "absent", 400, calls1)
               [] ~fetched -> Answer("download", v, "absent", 500, calls2)
               [] OTHER    -> Answer("download", v, "absent", 200, calls3)
       /\ video_dirs' = IF have THEN video_dirs ELSE video_dirs \cup {v}
       /\ archive' =
             IF stored
             THEN [archive EXCEPT ![v] =
                      @ \cup {"video", "metadata"}
                        \cup (IF thumbed THEN {"thumbnail"} ELSE {})]
             ELSE archive
       /\ mtime' = IF stored THEN [mtime EXCEPT ![v] = Stamp(now)] ELSE mtime
       /\ metadata_file' = IF stored /\ SidecarMissing(v)
                           THEN [metadata_file EXCEPT ![v] = "download"]
                           ELSE metadata_file
       /\ saved_at' = IF stored /\ SidecarMissing(v)
                      THEN [saved_at EXCEPT ![v] = Stamp(now)]
                      ELSE saved_at
       /\ UNCHANGED <<now, job_status, pc, threads, reply, uploads, legacy,
                      gallery, call, wait>>

\* the variant of the remote delete that removes the local directory as well
delete_video_both(v, key, remote, through, deleted) ==
    LET got == Retrieved(remote, through)
        calls1 == <<Called("retrieve", got)>>
        calls2 == calls1 \o
                  <<Called("delete", Returned(deleted /\ remote # "absent"))>>
        removed == key /\ got \notin NonTerminalRemote
    IN /\ response' =
             CASE ~key -> Answer("delete", v, remote, 500, <<>>)
               [] got \in NonTerminalRemote ->
                          Answer("delete", v, remote, 400, calls1)
               [] OTHER -> Answer("delete", v, remote, 200, calls2)
       /\ archive' = IF removed THEN [archive EXCEPT ![v] = {}] ELSE archive
       /\ mtime' = IF removed THEN [mtime EXCEPT ![v] = 0] ELSE mtime
       /\ saved_at' = IF removed THEN [saved_at EXCEPT ![v] = 0] ELSE saved_at
       /\ metadata_file' = IF removed
                           THEN [metadata_file EXCEPT ![v] = "none"]
                           ELSE metadata_file
       /\ video_dirs' = IF removed THEN video_dirs \ {v} ELSE video_dirs
       /\ UNCHANGED <<now, job_status, pc, threads, reply, uploads, legacy,
                      gallery, call, wait>>

\* delete_video(video_id): build the client, ask for the status and refuse
\* when it is queued or in_progress, go on when the status call raised, call
\* client.delete and report how it ended; no file is touched
delete_video(v, key, remote, through, deleted) ==
    LET got == Retrieved(remote, through)
        calls1 == <<Called("retrieve", got)>>
        calls2 == calls1 \o
                  <<Called("delete", Returned(deleted /\ remote # "absent"))>>
    IN /\ response' =
             CASE ~key -> Answer("delete", v, remote, 500, <<>>)
               [] got \in NonTerminalRemote ->
                          Answer("delete", v, remote, 400, calls1)
               [] OTHER -> Answer("delete", v, remote, 200, calls2)
       /\ UNCHANGED <<now, job_status, pc, taskLocals, reply, uploads, shelves,
                      gallery, call, wait>>

\* the variant of the local delete that leaves the files where they are
delete_local_video_kept(v, failed, left) ==
    LET found == v \in video_dirs
    IN /\ left = archive[v]
       /\ response' = Answer("delete_local", v, "absent",
                             IF ~found THEN 404 ELSE IF failed THEN 500 ELSE 200,
                             <<>>)
       /\ UNCHANGED <<now, job_status, pc, taskLocals, reply, uploads, shelves,
                      gallery, call, wait>>

\* delete_local_video(video_id): 404 when videos/<id> does not exist; else
\* shutil.rmtree(video_dir), which removes the directory with all its files,
\* or raises after it has removed some of them (500)
delete_local_video(v, failed, left) ==
    LET found == v \in video_dirs
    IN /\ left \subseteq archive[v]
       /\ ~found => left = archive[v]
       /\ (found /\ ~failed) => left = {}
       /\ response' = Answer("delete_local", v, "absent",
                             IF ~found THEN 404 ELSE IF failed THEN 500 ELSE 200,
                             <<>>)
       /\ archive' = [archive EXCEPT ![v] = left]
       /\ mtime' = IF "video" \in left THEN mtime ELSE [mtime EXCEPT ![v] = 0]
       /\ saved_at' = IF "metadata" \in left THEN saved_at
                      ELSE [saved_at EXCEPT ![v] = 0]
       /\ metadata_file' = IF "metadata" \in left THEN metadata_file
                           ELSE [metadata_file EXCEPT ![v] = "none"]
       /\ video_dirs' = IF found /\ ~failed THEN video_dirs \ {v} ELSE video_dirs
       /\ UNCHANGED <<now, job_status, pc, threads, reply, uploads, legacy,
                      gallery, call, wait>>

\* ------------------------------------------------------ the client, directly
\* SoraAPIClient().create(prompt, input_reference=reference) called by a
\* program that uses the client as a library
client_create(client, reference) ==
    /\ \E o \in create(client, reference, temp) :
          call' = [client |-> client, input_reference |-> reference,
                   posted |-> o.posted, error |-> o.error,
                   api_response |-> o.api_response]
    /\ UNCHANGED <<now, job_status, pc, taskLocals, reply, uploads, shelves,
                   gallery, response, wait>>

\* the budgets a caller gives wait_for_completion: one sleep, or the default
\* of the older client
WaitBudgets == {poll_interval, max_wait_time}

\* a wait that returns the job in every terminal status
WaitEnd_returns(s) == IF s \in TerminalRemote THEN "returned" ELSE "polling"

\* the end of a loop turn after retrieve returned status s: return video,
\* raise Exception(...), or sleep and go on
WaitEnd(s) ==
    CASE s = "completed" -> "returned"
      [] s \in {"failed", "cancelled", "incomplete"} -> "raised"
      [] OTHER -> "polling"

\* client.wait_for_completion(video_id, max_wait_time=budget) is called:
\* start_time = time.time()
wait_for_completion(client, budget) ==
    /\ wait.state # "polling"
    /\ wait' = [client |-> client, state |-> "polling",
                max_wait_time |-> budget, elapsed |-> 0, status |-> "unbound",
                step |-> "called"]
    /\ UNCHANGED <<now, job_status, pc, taskLocals, reply, uploads, shelves,
                   gallery, call, response>>

\* one turn of its loop: TimeoutError when elapsed > max_wait_time; else
\* retrieve, which raises (sleep, continue) or returns a status that ends the
\* wait or is slept on
WaitTurn(s, through, lat) ==
    /\ wait.state = "polling"
    /\ IF wait.elapsed > wait.max_wait_time
       THEN wait' = [wait EXCEPT !.state = "TimeoutError", !.step = "timeout"]
       ELSE IF ~through
       THEN wait' = [wait EXCEPT !.elapsed = @ + poll_interval + lat,
                                 !.step = "retrieve raised"]
       ELSE /\ s \in RemoteNext(wait.status)
            /\ wait' = [wait EXCEPT
                          !.status = s,
                          !.state = WaitEnd(s),
                          !.step = "retrieve returned",
                          !.elapsed = IF WaitEnd(s) = "polling"
                                      THEN @ + poll_interval + lat ELSE @]
    /\ UNCHANGED <<now, job_status, pc, taskLocals, reply, uploads, shelves,
                   gallery, call, response>>

\* -------------------------------------------------------------------- runs
JobIds == {JobId(c) : c \in 0..MaxClock}

\* submissions without an uploaded reference image, and their tasks, with a
\* remote service that reports no progress
Next ==
    \/ Tick
    \/ \E t \in Tasks, prompt \in BOOLEAN : create_video(t, prompt, FALSE)
    \/ \E t \in Tasks, video_id, prompt \in BOOLEAN :
          remix_video(t, video_id, prompt)
    \/ \E t \in Tasks : Register(t)
    \/ \E t \in Tasks : ClientFails(t)
    \/ \E t \in Tasks : SubmitOk(t)
    \/ \E t \in Tasks : SubmitFails(t)
    \/ \E t \in Tasks, s \in RemoteStatuses, lat \in Latencies,
          remote \in SteadyProgress : PollOk(t, s, lat, remote)
    \/ \E t \in Tasks, lat \in Latencies : PollFails(t, lat)
    \/ \E t \in Tasks : AfterLoop(t)
    \/ \E t \in Tasks, i \in 1..3 : FetchOk(t, i)
    \/ \E t \in Tasks, i \in 1..3 : FetchFails(t, i)
    \/ \E t \in Tasks : WriteMetadata(t)
    \/ \E t \in Tasks : Finish(t)

Spec == Init /\ [][Next]_vars

\* status queries between the steps of tasks that are each followed for
\* MaxLatePolls getStatus calls
ShortPolls == \A t \in Tasks : polls'[t] <= MaxLatePolls

NextQuery ==
    \/ \E j \in JobIds : get_status(j)
    \/ Next /\ ShortPolls

SpecQuery == Init /\ [][NextQuery]_vars

\* submissions with an uploaded reference image among the others
NextUpload ==
    \/ \E t \in Tasks, prompt \in BOOLEAN : create_video(t, prompt, TRUE)
    \/ \E t \in Tasks : Cleanup(t)
    \/ Next /\ ShortPolls

SpecUpload == Init /\ [][NextUpload]_vars

\* a remote service that reports any progress
NextProgress ==
    \/ /\ \E t \in Tasks, s \in RemoteStatuses, lat \in Latencies,
             remote \in RemoteProgress : PollOk(t, s, lat, remote)
       /\ ShortPolls
    \/ Next /\ ShortPolls

SpecProgress == Init /\ [][NextProgress]_vars

\* what videos/<id>/ can hold when the server is asked for the gallery: the
\* metadata file is empty, is not JSON, or was written by a remix task or (with
\* 'saved_at') by the download endpoint
DirStates ==
    {d \in [files : SUBSET {"video", "thumbnail", "metadata"},
            mtime : {0} \cup Stamps, saved_at : {0} \cup Stamps,
            metadata : {"none", "empty", "corrupt", "remix", "download"},
            exists : BOOLEAN] :
        /\ d.mtime = 0 <=> "video" \notin d.files
        /\ d.metadata = "none" <=> "metadata" \notin d.files
        /\ d.saved_at # 0 <=> d.metadata = "download"
        /\ d.files # {} => d.exists}

\* what the flat layout can hold of one id: <id>.json is empty, is not JSON, or
\* was written (with 'saved_at') by save_video_info
FlatStates ==
    {f \in [files : SUBSET {"video", "json"}, saved_at : {0} \cup Stamps,
            mtime : {0} \cup Stamps,
            json : {"none", "empty", "corrupt", "info"}] :
        /\ f.mtime = 0 <=> "video" \notin f.files
        /\ f.json = "none" <=> "json" \notin f.files
        /\ f.saved_at # 0 <=> f.json = "info"}

\* an archive left by earlier runs of the server and of programs that use the
\* client's download and save_video_info
InitArchive ==
    /\ InitTasks
    /\ temp = {}
    /\ \E d \in [VideoIds -> DirStates] :
          /\ archive = [v \in VideoIds |-> d[v].files]
          /\ mtime = [v \in VideoIds |-> d[v].mtime]
          /\ saved_at = [v \in VideoIds |-> d[v].saved_at]
          /\ metadata_file = [v \in VideoIds |-> d[v].metadata]
          /\ video_dirs = {v \in VideoIds : d[v].exists}
    /\ legacy \in [VideoIds -> FlatStates]

NextArchive == \E dirs, files \in Orders : get_gallery(dirs, files)

SpecArchive == InitArchive /\ [][NextArchive]_vars

\* only the first submission is made
Solo == \A t \in Tasks : t > 1 => pc'[t] = "idle"

\* download and delete requests as the clock moves
NextStore ==
    \/ Tick
    \/ \E v \in VideoIds, c \in DownloadCases :
          download_video_endpoint(v, c.key, c.remote, c.through, c.fetched,
                                  c.thumbed)
    \/ \E v \in VideoIds, c \in DeleteCases :
          delete_video(v, c.key, c.remote, c.through, c.deleted)
    \/ \E v \in VideoIds, failed \in BOOLEAN :
          \E left \in SUBSET archive[v] : delete_local_video(v, failed, left)

\* download and delete requests on an empty archive
SpecStore == Init /\ [][NextStore]_vars

\* what the service holds of the video of task t: nothing that a request
\* could name before submit has returned its id, then a job that is not
\* behind the status that the task has seen
RemoteOf(t) ==
    IF pc[t] \in {"poll", "after_loop"} \/ final_result[t] # "unbound"
    THEN RemoteNext(final_result[t])
    ELSE {"absent"}

\* one submission and its task among download and local delete requests for
\* the video of that task
NextSidecar ==
    \/ \E c \in DownloadCases :
          /\ c.remote \in RemoteOf(1)
          /\ download_video_endpoint(RemoteId(1), c.key, c.remote, c.through,
                                     c.fetched, c.thumbed)
    \/ \E failed \in BOOLEAN, left \in SUBSET archive[RemoteId(1)] :
          delete_local_video(RemoteId(1), failed, left)
    \/ Next /\ ShortPolls /\ Solo

SpecSidecar == Init /\ [][NextSidecar]_vars

\* reference images on the disk when a program calls the client
InitAdapter ==
    /\ InitTasks
    /\ temp \in SUBSET TempFiles
    /\ NoVideos

NextAdapter ==
    \E client \in Adapters, reference \in {NoValue} \cup RefPaths :
        client_create(client, reference)

SpecAdapter == InitAdapter /\ [][NextAdapter]_vars

\* programs that wait for a video with either client
NextWait ==
    \/ \E client \in Adapters, budget \in WaitBudgets :
          wait_for_completion(client, budget)
    \/ \E s \in RemoteStatuses, through \in BOOLEAN, lat \in Latencies :
          WaitTurn(s, through, lat)

SpecWait == Init /\ [][NextWait]_vars

\* one task whose getStatus calls and sleeps take no time, or as long as
\* brings the next turn of the loop to a second at which the exact value of
\* 75 * elapsed / max_wait_time is a whole number
Delays ==
    {d \in 0..(max_wait_time - poll_interval) :
        d = 0 \/ (75 * (poll_interval + d)) % max_wait_time = 0}

NextElapsed ==
    \/ /\ \E t \in Tasks, s \in RemoteStatuses, lat \in Delays,
             remote \in SteadyProgress : PollOk(t, s, lat, remote)
       /\ ShortPolls /\ Solo
    \/ Next /\ ShortPolls /\ Solo

SpecElapsed == Init /\ [][NextElapsed]_vars

\* the steps of the thread of task t
Run(t) ==
    \/ Register(t)
    \/ ClientFails(t)
    \/ SubmitOk(t)
    \/ SubmitFails(t)
    \/ \E s \in RemoteStatuses, lat \in Latencies, remote \in SteadyProgress :
          PollOk(t, s, lat, remote)
    \/ \E lat \in Latencies : PollFails(t, lat)
    \/ AfterLoop(t)
    \/ \E i \in 1..3 : FetchOk(t, i) \/ FetchFails(t, i)
    \/ WriteMetadata(t)
    \/ Finish(t)

\* every turn of a polling loop takes half of the budget, so that a loop is
\* over within the getStatus calls a run follows
Slow ==
    \A t \in Tasks :
        (pc[t] = "poll" /\ pc'[t] = "poll")
            => elapsed'[t] >= elapsed[t] + max_wait_time \div 2

NextLive == Next /\ Solo /\ Slow

\* one task whose thread keeps running: every Adapter call returns or raises,
\* and the thread is scheduled as long as it has a step to take
SpecLive ==
    Init /\ [][NextLive]_vars /\ \A t \in Tasks : WF_vars(Run(t) /\ Solo /\ Slow)

\* an archive that holds one id, in either layout or in both, which is listed
\* and deleted locally
InitRemove ==
    /\ InitTasks
    /\ temp = {}
    /\ \E d \in DirStates, f \in FlatStates :
          LET only(x, none) ==
                  [v \in VideoIds |-> IF v = RemoteId(1) THEN x ELSE none]
          IN /\ archive = only(d.files, {})
             /\ mtime = only(d.mtime, 0)
             /\ saved_at = only(d.saved_at, 0)
             /\ metadata_file = only(d.metadata, "none")
             /\ video_dirs = IF d.exists THEN {RemoteId(1)} ELSE {}
             /\ legacy = only(f, NoLegacy)

NextRemove ==
    \/ \E dirs, files \in Orders : get_gallery(dirs, files)
    \/ \E v \in VideoIds, failed \in BOOLEAN :
          \E left \in SUBSET archive[v] : delete_local_video(v, failed, left)

SpecRemove == InitRemove /\ [][NextRemove]_vars

\* ------------------------------------------------------------------ claims
Started(t) == pc[t] # "idle"

\* the try statement of the task has been left
Left(p) == p \in {"done", "escaped", "finally", "finally_raising"}

Ended(t) == pc[t] \in {"done", "escaped"}

Record(t) == job_status[job_id[t]]

AllStored(t) ==
    {Variants(kind[t])[i] : i \in 1..Len(Variants(kind[t]))} \cup {"metadata"}
        \subseteq archive[RemoteId(t)]

\* C1 (as claimed, in the case that every content fetch returned and the
\* metadata file was opened): a task that has seen the remote status completed
\* ends with a record of status completed that carries a video_path.
C1_CompletedRemoteEndsCompleted ==
    \A t \in Tasks :
        (Ended(t) /\ final_result[t] = "completed" /\ AllStored(t))
            => /\ pc[t] = "done"
               /\ Record(t).status = "completed"
               /\ Record(t).video_path # NoValue

\* C2 (as claimed): a task that has seen the remote status failed, cancelled or
\* incomplete issues no content fetch and ends with local status failed.
C2_RemoteFailureEndsFailed ==
    \A t \in Tasks :
        (Ended(t) /\ final_result[t] \in {"failed", "cancelled", "incomplete"})
            => /\ fetch_calls[t] = {}
               /\ pc[t] = "done"
               /\ Record(t).status = "failed"

\* a step of task t that calls getStatus
CallsGetStatus(t) ==
    \/ \E s \in RemoteStatuses, lat \in Latencies, remote \in RemoteProgress :
          PollOk(t, s, lat, remote)
    \/ \E lat \in Latencies : PollFails(t, lat)

\* C3 (as claimed): once a getStatus call of a task has returned a terminal
\* remote status, the task calls getStatus no more.
C3_NoPollAfterTerminal ==
    [][\A t \in Tasks :
          final_result[t] \in TerminalRemote => ~CallsGetStatus(t)]_vars

\* C4: no task sees more than max_consecutive_errors getStatus failures in a
\* row, and the failure that reaches that number ends the task with a record
\* of status error.
C4_ErrorBudgetAborts ==
    [][\A t \in Tasks :
          /\ fail_run'[t] <= max_consecutive_errors
          /\ (fail_run'[t] # fail_run[t] /\ fail_run'[t] >= max_consecutive_errors)
                => /\ pc'[t] = "done"
                   /\ job_status'[job_id[t]].status = "error"]_vars

C4_Witness ==
    \E t \in Tasks :
        /\ fail_run[t] = max_consecutive_errors
        /\ pc[t] = "done"
        /\ Record(t).status = "error"
        /\ Record(t).error_details.error_type = "Exception"

\* C5 (as claimed): a getStatus failure that brings the count of consecutive
\* failures to at most 5 does not end the task: it stays non-terminal, the
\* message of its record reports the failure, and the loop goes on.
C5_FiveFailuresTolerated ==
    [][\A t \in Tasks :
          (fail_run'[t] = fail_run[t] + 1 /\ fail_run'[t] <= 5)
              => /\ pc'[t] \in {"poll", "after_loop"}
                 /\ job_status'[job_id[t]].status \notin {"error", "failed"}
                 /\ job_status'[job_id[t]].message.n = fail_run'[t]]_vars

\* the record a task writes when the remote service reports status failed
RemoteFailedRecord(r) ==
    /\ r.status = "failed"
    /\ r.result = "failed"
    /\ r.message = Msg("failed", "failed", 0)

C7_ProgressNeverDecreases ==
    [][\A j \in DOMAIN job_status :
          job_status'[j].progress >= job_status[j].progress]_vars

\* C8 (as claimed): no exception leaves a task; each one ends the task with a
\* record of status error that carries error_details.
C8_NoExceptionEscapes ==
    \A t \in Tasks : pc[t] # "escaped"

\* C9 (as claimed): a status query for a job id that a submission has returned
\* never answers NotFound.
C9_ReturnedIdIsFound ==
    [][\A j \in JobIds :
          ((\E t \in Tasks : Started(t) /\ job_id[t] = j) /\ get_status(j))
              => reply'.code = 200]_vars

\* C10 (as claimed): two submissions never get the same job id.
C10_JobIdsDistinct ==
    \A t, u \in Tasks :
        (t # u /\ Started(t) /\ Started(u)) => job_id[t] # job_id[u]

\* task t has written the record of its job id
Wrote(t) == pc[t] \notin {"idle", "started", "escaped", "finally_raising"}

\* C11 (as claimed): no registry record is written by two tasks.
C11_WritesPerTaskExclusive ==
    \A t, u \in Tasks :
        (t # u /\ Wrote(t) /\ Wrote(u)) => job_id[t] # job_id[u]

\* C12: a status query leaves the registry as it is and answers 404 not_found
\* for an id without a record; no step of the server removes a record.
C12_QueryLeavesRegistry ==
    [][/\ DOMAIN job_status \subseteq DOMAIN job_status'
       /\ \A j \in JobIds :
             get_status(j) =>
                 /\ job_status' = job_status
                 /\ ~HasRecord(j) => /\ reply'.code = 404
                                     /\ reply'.body = "not_found"]_vars

C12_Witness ==
    /\ reply.code = 404
    /\ reply.job \notin DOMAIN job_status
    /\ \E j \in JobIds : HasRecord(j)

\* C13 (as claimed): a create request without a prompt, and a remix request
\* without a prompt or without a video id, issues no job id and starts no
\* task.
C13_MissingInputRejected ==
    [][\A t \in Tasks :
          (\/ \E file \in BOOLEAN : create_video(t, FALSE, file)
           \/ \E video_id, prompt \in BOOLEAN :
                 /\ ~(video_id /\ prompt)
                 /\ remix_video(t, video_id, prompt))
              => /\ pc'[t] = "idle"
                 /\ job_id'[t] = NoValue]_vars

\* C14 (as claimed): a create call of an API client with a reference image
\* path that names no file raises the reference-not-found error and posts no
\* request.
C14_MissingReferenceNotPosted ==
    (call.input_reference # NoValue /\ call.input_reference \notin temp)
        => /\ call.error = "ValueError"
           /\ ~call.posted

\* C15: a create task that was given a staged reference image ends, with or
\* without a record, only by a step of its finally clause, which removes the
\* file or fails to and leaves the registry as it is.
C15_CleanupOnEveryEnd ==
    [][\A t \in Tasks :
          /\ (Staged(t) /\ pc[t] \notin {"done", "escaped"}
                /\ pc'[t] \in {"done", "escaped"})
                => /\ Cleanup(t)
                   /\ Left(pc[t])
          /\ Cleanup(t) =>
                /\ job_status' = job_status
                /\ temp' \in {temp, temp \ {input_reference_path[t]}}]_vars

C15_Witness ==
    \E t \in Tasks :
        /\ Staged(t)
        /\ pc[t] = "done"
        /\ Record(t).status = "error"
        /\ input_reference_path[t] \in temp
        /\ \A u \in Tasks \ {t} :
              input_reference_path[u] # input_reference_path[t]

\* a step of task t that calls save_video, download or generate_thumbnail
CallsFetch(t) == \E i \in 1..3 : FetchOk(t, i) \/ FetchFails(t, i)

\* C16: the step in which the submit call of a task fails writes status error
\* with error details and leaves the try statement; a task that has left it
\* calls neither submit nor getStatus nor a content fetch.
C16_SubmitFailureEndsTask ==
    [][\A t \in Tasks :
          /\ SubmitFails(t) =>
                /\ pc'[t] \in {"done", "finally"}
                /\ job_status'[job_id[t]].status = "error"
                /\ job_status'[job_id[t]].error_details # NoErrorDetails
                /\ polls'[t] = 0
                /\ fetch_calls'[t] = {}
          /\ Left(pc[t]) =>
                ~(SubmitOk(t) \/ SubmitFails(t) \/ CallsGetStatus(t)
                    \/ CallsFetch(t))]_vars

C16_Witness ==
    \E t \in Tasks :
        /\ pc[t] = "done"
        /\ \A u \in Tasks \ {t} : job_id[u] # job_id[t]
        /\ Record(t).status = "error"
        /\ Record(t).error_details.error_type = "HTTPError"
        /\ Record(t).progress = 0
        /\ final_result[t] = "unbound"
        /\ fetch_calls[t] = {}

\* the API client has answered tasks t and u alike
SameOutcomes(t, u) ==
    /\ final_result[t] = final_result[u]
    /\ fail_run[t] = fail_run[u]
    /\ timed_out[t] = timed_out[u]
    /\ fetch_calls[t] \cap {"video", "thumbnail"} = fetch_calls[u]
    /\ archive[RemoteId(t)] \cap {"video", "thumbnail", "metadata"}
          = archive[RemoteId(u)]

\* C17 (as claimed): a create task and a remix task that the API client has
\* answered alike end with the same local status.
C17_CreateAndRemixAgree ==
    \A t, u \in Tasks :
        (/\ kind[t] = "create" /\ kind[u] = "remix"
         /\ pc[t] = "done" /\ pc[u] = "done"
         /\ job_id[t] # job_id[u]
         /\ SameOutcomes(t, u))
            => Record(t).status = Record(u).status

\* C18 (as claimed): when the record of a create task has status completed,
\* it has progress 100 and a video_path, and the archive holds the video, the
\* thumbnail and the metadata file under the remote id that the task's submit
\* call returned.
C18_CompletedCreateIsArchived ==
    \A t \in Tasks :
        (kind[t] = "create" /\ Wrote(t) /\ Record(t).status = "completed")
            => /\ Record(t).progress = 100
               /\ Record(t).video_path # NoValue
               /\ {"video", "thumbnail", "metadata"}
                     \subseteq archive[RemoteId(t)]

\* C19: a turn of the polling loop writes the same status and progress, and
\* leaves the task in the same place, whatever progress the remote job
\* reports.
C19_RemoteProgressIgnored ==
    [][\A t \in Tasks, s \in RemoteStatuses, lat \in Latencies :
          \A r1, r2 \in RemoteProgress :
              PollOk(t, s, lat, r1) => PollOk(t, s, lat, r2)]_vars

C19_Witness ==
    \E t \in Tasks :
        /\ pc[t] = "after_loop"
        /\ final_result[t] \in NonTerminalRemote
        /\ Record(t).progress = current_progress(max_wait_time \div 2)

\* id v has its video in one of the two layouts that the listing reads
Present(v) ==
    \/ "video" \in archive[v]
    \/ {"json", "video"} \subseteq legacy[v].files

\* C20 (as claimed): the listing holds one entry for each id that is present
\* in the directory layout or in the flat layout, and none for the others.
C20_ListsEachPresentIdOnce ==
    gallery.success =>
        \A v \in VideoIds :
            Cardinality({i \in DOMAIN gallery.videos : gallery.videos[i].id = v})
                = IF Present(v) THEN 1 ELSE 0

\* id v has its primary media file, in the directory or in the flat layout
HasBlob(v) == "video" \in archive[v] \/ "video" \in legacy[v].files

Listed(v) == \E i \in DOMAIN gallery.videos : gallery.videos[i].id = v

\* C21 (as claimed): the listing has an entry for an id exactly when the id's
\* video file exists, in videos/<id>/ or as videos/<id>.mp4, with or without a
\* metadata file.
C21_ListedIffBlobExists ==
    gallery.success => \A v \in VideoIds : Listed(v) <=> HasBlob(v)

\* the time by which the claim orders an entry: 'saved_at' of its metadata, or
\* the modification time of its video file when the metadata has none
SavedOrModified(e) ==
    IF e.layout = "dir"
    THEN IF saved_at[e.id] # 0 THEN saved_at[e.id] ELSE mtime[e.id]
    ELSE IF legacy[e.id].saved_at # 0 THEN legacy[e.id].saved_at
         ELSE legacy[e.id].mtime

\* C22 (as claimed): the listing is in descending order of the saved timestamp,
\* where an entry without one counts with the modification time of its video
\* file, in both layouts.
C22_NewestFirst ==
    gallery.success =>
        \A i, j \in DOMAIN gallery.videos :
            i < j => SavedOrModified(gallery.videos[i])
                        >= SavedOrModified(gallery.videos[j])

Unreadable == {"none", "empty", "corrupt"}

ListedEmpty(v, layout) ==
    \E i \in DOMAIN gallery.videos :
        /\ gallery.videos[i].id = v
        /\ gallery.videos[i].layout = layout
        /\ gallery.videos[i].metadata = "{}"

\* C23 (as claimed): every listing succeeds, and a video file whose metadata
\* file is missing, empty or not JSON is listed, with empty metadata.
C23_UnreadableSidecarTolerated ==
    [][gallery' # gallery =>
        /\ gallery'.success
        /\ \A v \in VideoIds :
              /\ ("video" \in archive[v] /\ metadata_file[v] \in Unreadable)
                    => ListedEmpty(v, "dir")'
              /\ ("video" \in legacy[v].files /\ legacy[v].json \in Unreadable)
                    => ListedEmpty(v, "flat")']_vars

\* a request of the named endpoint has just been answered
Served(endpoint) == response' # response /\ response'.endpoint = endpoint

\* C24 (as claimed, for the requests that rmtree lets through): a local delete
\* of an id without directory answers 404 and changes nothing in videos/; one
\* that answers 200 has removed the directory with every file in it, so that
\* the video file no longer exists, and a local delete of the same id that
\* follows it answers 404.
C24_DeleteLocal ==
    [][\A v \in VideoIds :
          (Served("delete_local") /\ response'.video_id = v) =>
              /\ v \notin video_dirs
                    => response'.code = 404 /\ UNCHANGED <<archive, shelves>>
              /\ v \in video_dirs => response'.code \in {200, 500}
              /\ response'.code = 200
                    => /\ archive'[v] = {}
                       /\ v \notin video_dirs'
                       /\ metadata_file'[v] = "none"
              /\ (response.endpoint = "delete_local" /\ response.video_id = v
                     /\ response.code = 200) => response'.code = 404]_vars

\* a local delete has removed the directory of an id
C24_Witness ==
    /\ response.endpoint = "delete_local"
    /\ response.code = 200
    /\ response.video_id \notin video_dirs
    /\ archive[response.video_id] = {}

Calls(name) == {i \in DOMAIN response.calls : response.calls[i].name = name}

\* C25 (as claimed): a remote delete request for a video that the service
\* holds as queued or in_progress is answered 400 and makes no call of
\* client.delete.
C25_NoDeleteWhileRunning ==
    (response.endpoint = "delete" /\ response.remote \in NonTerminalRemote)
        => response.code = 400 /\ Calls("delete") = {}

\* C26 (as claimed): a step that ends with the answer of a remote delete
\* changes nothing in videos/, and the answer of a local delete comes without
\* a call of the API client.
C26_DeletesKeepApart ==
    [][/\ response'.endpoint = "delete" => UNCHANGED <<archive, shelves>>
       /\ response'.endpoint = "delete_local" => response'.calls = <<>>]_vars

\* a remote delete that called client.delete, with a video in the archive
C26_Witness ==
    /\ response.endpoint = "delete"
    /\ Calls("delete") # {}
    /\ "video" \in archive[response.video_id]

\* C27 (as claimed): a download request asks for content only after a retrieve
\* that returned the status completed; after any other status or a retrieve
\* that raised it answers with an error and has asked for nothing more; when
\* the video file is there it makes no call of the API client.
C27_DownloadOnlyCompleted ==
    [][Served("download") =>
          /\ (Calls("download")' \cup Calls("generate_thumbnail")' # {})
                => response'.calls[1] = Called("retrieve", "completed")
          /\ (response'.calls # <<>>
                 /\ response'.calls[1] # Called("retrieve", "completed"))
                => /\ response'.code \in {400, 404}
                   /\ Len(response'.calls) = 1
                   /\ response'.calls[1].name = "retrieve"
          /\ "video" \in archive[response'.video_id]
                => response'.calls = <<>> /\ response'.code = 200]_vars

\* a download that fetched the video after the status completed
C27_Witness ==
    /\ response.endpoint = "download"
    /\ response.code = 200
    /\ Calls("download") # {}
    /\ "video" \in archive[response.video_id]

\* C28 (as claimed): a download request leaves a metadata file that exists as
\* it is, and the metadata step of a task that goes on to completed leaves the
\* task's own metadata in the file, whatever the file held.
C28_SidecarOverwrite ==
    [][/\ \A v \in VideoIds :
             (Served("download") /\ response'.video_id = v
                /\ "metadata" \in archive[v])
                => /\ metadata_file'[v] = metadata_file[v]
                   /\ saved_at'[v] = saved_at[v]
       /\ \A t \in Tasks :
             (pc[t] = "metadata" /\ pc'[t] = "finish")
                => /\ metadata_file'[RemoteId(t)] = kind[t]
                   /\ saved_at'[RemoteId(t)] = 0]_vars

\* a remix task has completed and a download request has stored its video:
\* the task has overwritten the metadata file of the download, or the
\* download has kept the one of the task
C28_Witness ==
    \E t \in Tasks :
        /\ pc[t] = "done"
        /\ HasRecord(job_id[t])
        /\ Record(t).status = "completed"
        /\ response.endpoint = "download"
        /\ response.video_id = RemoteId(t)
        /\ Calls("download") # {}
        /\ response.code = 200
        /\ metadata_file[RemoteId(t)] = kind[t]

\* C29 (as claimed): a wait that has returned the job has seen the status
\* completed, one that has raised Exception has seen failed, cancelled or
\* incomplete, one that has raised TimeoutError has found the elapsed time
\* above max_wait_time with no terminal status seen; and after a retrieve
\* that raised the wait goes on.
C29_WaitEndsThreeWays ==
    /\ wait.state \in {"idle", "polling", "returned", "raised", "TimeoutError"}
    /\ wait.state = "returned" <=> wait.status = "completed"
    /\ wait.state = "raised"
          <=> wait.status \in {"failed", "cancelled", "incomplete"}
    /\ wait.state = "TimeoutError"
          => /\ wait.elapsed > wait.max_wait_time
             /\ wait.status \notin TerminalRemote
    /\ wait.step = "retrieve raised" => wait.state = "polling"

\* a wait with the default budget in which every retrieve raised: it went on
\* until the budget was spent
C29_Witness ==
    /\ wait.state = "TimeoutError"
    /\ wait.status = "unbound"
    /\ wait.max_wait_time = max_wait_time

\* C30 (as claimed): the record of a task that ended with status failed
\* because the remote job reported failed carries the error detail of that
\* job in its message.
C30_FailedMessageHasDetail ==
    \A t \in Tasks :
        (Ended(t) /\ HasRecord(job_id[t]) /\ Record(t).status = "failed"
           /\ Record(t).result = "failed")
            => Record(t).message.arg = RemoteError(Record(t).result)

\* the step is a turn of the loop of task t in which getStatus returned
Polled(t) ==
    /\ pc[t] = "poll"
    /\ fail_run'[t] = 0
    /\ pc'[t] # "poll" \/ elapsed'[t] # elapsed[t]

\* C31 (as claimed): a getStatus call that returns leaves the consecutive-error
\* counter of its task at zero, and a getStatus failure that follows a success
\* (or is the first call of the task) does not end the task.
C31_OnlyUnbrokenRunAborts ==
    [][\A t \in Tasks :
          /\ Polled(t) => consecutive_errors'[t] = 0
          /\ (fail_run[t] = 0 /\ fail_run'[t] = 1) => ~Left(pc'[t])]_vars

\* C32: the steps of a task come in order. The submit call of a task does not
\* return once the task has called getStatus or fetched content, and no
\* getStatus call follows a content fetch; content is fetched only after a
\* getStatus that returned completed; the metadata file is written only when
\* every content variant is stored; status completed is written only when the
\* metadata file is.
C32_StepsInOrder ==
    [][\A t \in Tasks :
          /\ (polls[t] # 0 \/ fail_run[t] # 0 \/ final_result[t] # "unbound"
                 \/ fetch_calls[t] # {}) => ~SubmitOk(t)
          /\ fetch_calls[t] # {} => ~CallsGetStatus(t)
          /\ final_result[t] # "completed" => ~CallsFetch(t)
          /\ ~({Variants(kind[t])[i] : i \in 1..Len(Variants(kind[t]))}
                    \subseteq archive[RemoteId(t)])
                => ~(WriteMetadata(t) /\ "metadata" \in archive'[RemoteId(t)])
          /\ ~(AllStored(t) /\ metadata_file[RemoteId(t)] = Written(kind[t]))
                => ~Finish(t)]_vars

C32_Witness ==
    \E t \in Tasks :
        /\ pc[t] = "done"
        /\ Record(t).status = "completed"
        /\ polls[t] = 0 /\ final_result[t] = "completed"
        /\ fetch_calls[t] = {"video", "thumbnail"}
        /\ metadata_file[RemoteId(t)] = "remix"

\* 10 + min(75, floor(75 * elapsed / budget))
floor_progress(e) ==
    LET p == (75 * e) \div max_wait_time IN 10 + (IF p < 75 THEN p ELSE 75)

\* C33 (as claimed): a turn of the loop in which getStatus returns a
\* non-terminal status writes the progress 10 + min(75, floor(75 * elapsed /
\* budget)) for the elapsed time of that turn, a number from 10 to 85.
C33_ProgressIsFloor ==
    [][\A t \in Tasks :
          (Polled(t) /\ final_result'[t] \in NonTerminalRemote)
             => /\ job_status'[job_id[t]].progress = floor_progress(elapsed[t])
                /\ job_status'[job_id[t]].progress \in 10..85]_vars

TerminalLocal == {"completed", "failed", "error"}

\* C34 (as claimed): a task that has ended has a record of terminal status
\* (completed, failed or error), and the status of a record that holds a
\* terminal status is never written again.
C34_OneTerminalWrite ==
    [][/\ \A t \in Tasks :
             (pc'[t] \in {"done", "escaped"})
                => /\ job_id'[t] \in DOMAIN job_status'
                   /\ job_status'[job_id'[t]].status \in TerminalLocal
       /\ \A j \in JobIds :
             (HasRecord(j) /\ job_status[j].status \in TerminalLocal)
                => job_status'[j].status = job_status[j].status]_vars

\* C35 (as claimed): every task that was started comes to have a record of
\* terminal status (completed, failed or error).
C35_EveryTaskEnds ==
    \A t \in Tasks :
        Started(t) ~> (HasRecord(job_id[t]) /\ Record(t).status \in TerminalLocal)

\* C36 (as claimed): every record of the registry holds a progress within
\* 0..100, which is 100 exactly when the status is completed and 90 whenever
\* the status is downloading.
C36_ProgressMatchesStatus ==
    \A j \in DOMAIN job_status :
        /\ job_status[j].progress \in 0..100
        /\ job_status[j].progress = 100 <=> job_status[j].status = "completed"
        /\ job_status[j].status = "downloading" => job_status[j].progress = 90

\* C37 (as claimed): when a task has ended with a record of status error or
\* failed, the archive holds no video file for the id of its remote job, so
\* the listing has no entry for it.
C37_FailedTaskLeavesNoEntry ==
    \A t \in Tasks :
        (Ended(t) /\ HasRecord(job_id[t])
            /\ Record(t).status \in {"error", "failed"})
                => ~Present(RemoteId(t))

\* C38 (as claimed): a download request that is answered with a failure (400
\* not ready, 404 not retrievable, 500 fetch error) leaves the archive as it
\* was: the files of every id, their metadata and times, and the set of video
\* directories.
C38_FailedDownloadLeavesArchive ==
    [][(Served("download") /\ response'.code # 200)
          => UNCHANGED <<archive, shelves, legacy>>]_vars

\* the listing of the archive as it is holds an entry for id v
Lists(v) ==
    \E dirs, files \in Orders :
        LET videos == DirEntries(dirs) \o FlatEntries(files)
        IN  \E i \in DOMAIN videos : videos[i].id = v

\* C39 (as claimed): a local delete of an id that the listing holds, in the
\* directory layout or in the flat one, is answered 200 unless removing the
\* files raises, and the listing holds the id no more.
C39_ListedCanBeDeleted ==
    [][\A v \in VideoIds :
          (Lists(v) /\ Served("delete_local") /\ response'.video_id = v
              /\ response'.code # 500)
                => /\ response'.code = 200
                   /\ ~Lists(v)']_vars

====
